---- MODULE Spec2Model ----
(***************************************************************************)
(* Model of the request executor of async_mojang (_HTTPClient._request,    *)
(* _maybe_retry, _raise_for_status in src/async_mojang/_http_client.py).   *)
(*                                                                         *)
(* A call is a coroutine; every `await` of the source is one position of   *)
(* the call (pc) and every action runs the code from one suspension point  *)
(* to the next.  The server is the environment: it picks the status and    *)
(* the body of each response.  Around it: cancellation of a suspended      *)
(* call, the ownership and shutdown of the aiohttp session                 *)
(* (_HTTPClient.__init__, close), the lookup methods of API and the        *)
(* profile decoder _parse_profile (src/async_mojang/api.py).               *)
(***************************************************************************)
EXTENDS Integers, Sequences, FiniteSets, TLC

(* ------------------------------ bounds --------------------------------- *)

\* largest max_attempts the constructor is given
MaxAttemptsBound == 3

\* the calls made on one client
Calls == {"c1"}

\* the calls of two concurrent callers of one client
AllCalls == {"c1", "c2"}

\* values of ratelimit_sleep_time the constructor is given (60 is the default)
SleepTimes == {7, 60}

\* response statuses the server answers with: informational, success,
\* redirection, the five statuses of _STATUS_TO_ERROR, other 4xx, 5xx
Statuses == {101, 200, 204, 299, 304, 400, 401, 403, 404, 418, 429,
             500, 501, 502, 503, 504}

\* Response bodies, by what aiohttp's ClientResponse.json() / .text() do
\* with them:
\*   "errorMessage" JSON object with a truthy "errorMessage" field
\*   "error"        JSON object with a truthy "error", no truthy "errorMessage"
\*   "object"       JSON object with neither field
\*   "nonobject"    valid JSON that is not an object (array, string, number,
\*                  null; json() also returns None for an empty body)
\*   "notjson"      JSON content type, text that is not JSON
\*   "contenttype"  Content-Type is not application/json; the text is readable
\*   "encoding"     JSON content type, bytes invalid in the body's charset
Bodies == {"errorMessage", "error", "object", "nonobject", "notjson",
           "contenttype", "encoding"}

\* the decoders _get_json / _post_json / _get_text hand to _request
Decoders == {"json", "text"}

(* ------------------------- the error taxonomy -------------------------- *)

Taxonomy == {"BadRequest", "Unauthorized", "Forbidden", "NotFound",
             "TooManyRequests", "ServerError", "MalformedResponse",
             "MojangError"}

\* exceptions that are no MojangError but can leave _request
Foreign == {"AttributeError", "UnicodeDecodeError"}

NoOutcome == [kind |-> "none", status |-> 0, detail |-> "none"]
NoResponse == [status |-> 0, body |-> "none"]

(* --------------------------- pure functions ---------------------------- *)

\* 2 ** n for the exponents the retry loop produces (n >= 0)
RECURSIVE Pow2(_)
Pow2(n) == IF n <= 0 THEN 1 ELSE 2 * Pow2(n - 1)

\* aiohttp ClientResponse.ok, used at line 112: status below 400
Ok(status) == status < 400

\* _STATUS_TO_ERROR
STATUS_TO_ERROR ==
    [s \in {400, 401, 403, 404, 429} |->
        CASE s = 400 -> "BadRequest"
          [] s = 401 -> "Unauthorized"
          [] s = 403 -> "Forbidden"
          [] s = 404 -> "NotFound"
          [] s = 429 -> "TooManyRequests"]

\* the exception class chosen at lines 175-181
ErrorClass(status) ==
    IF status \in DOMAIN STATUS_TO_ERROR THEN STATUS_TO_ERROR[status]
    ELSE IF status >= 500 THEN "ServerError"
    ELSE "MojangError"

\* resp.json(): the type of the value it returns, or the exception it raises
Json(body) ==
    CASE body \in {"errorMessage", "error", "object"} -> "dict"
      [] body = "nonobject"   -> "nondict"
      [] body = "notjson"     -> "JSONDecodeError"
      [] body = "contenttype" -> "ContentTypeError"
      [] body = "encoding"    -> "UnicodeDecodeError"

\* resp.text(): a str, or the exception it raises
Text(body) == IF body = "encoding" THEN "UnicodeDecodeError" ELSE "str"

\* deserialize(resp) for the decoder of the call
Decode(decoder, body) == IF decoder = "json" THEN Json(body) ELSE Text(body)

\* both try blocks written with a bare `except:`
CaughtAnything == {"JSONDecodeError", "ContentTypeError", "UnicodeDecodeError",
                   "AttributeError", "CancelledError"}

\* the exceptions both try blocks catch (lines 115 and 172)
Caught == {"JSONDecodeError", "ContentTypeError"}

\* lines 113-118: the outcome of a response with resp.ok
Deserialized(decoder, body) ==
    LET r == Decode(decoder, body) IN
    IF r \in Caught
      THEN [kind |-> "MalformedResponse", status |-> 0,
            detail |-> "Failed to deserialize"]
    ELSE IF r = "UnicodeDecodeError"
      THEN [kind |-> "UnicodeDecodeError", status |-> 0, detail |-> "none"]
    ELSE [kind |-> "value", status |-> 0, detail |-> r]

\* lines 165-173: the detail string of _raise_for_status, or the exception
\* that leaves the try block uncaught
Detail(body) ==
    LET r == Json(body) IN
    IF r = "dict"
      THEN (IF body = "errorMessage" THEN "errorMessage"
            ELSE IF body = "error" THEN "error"
            ELSE "HTTP status")
    ELSE IF r \in Caught THEN "HTTP status reason for path"
    ELSE IF r = "nondict" THEN "AttributeError"
    ELSE r

\* _raise_for_status: the exception it raises
RaisedForStatus(status, body) ==
    LET d == Detail(body) IN
    IF d \in Foreign
      THEN [kind |-> d, status |-> 0, detail |-> "none"]
      ELSE [kind |-> ErrorClass(status), status |-> status, detail |-> d]

\* An exception `exc` thrown into the call at the await it is suspended at:
\* the awaits of lines 114 and 166 are inside a try block, the awaits of
\* lines 104, 136, 145 and 157 are not
Thrown(position, exc, status) ==
    IF position = "deserialize" /\ exc \in Caught
      THEN [kind |-> "MalformedResponse", status |-> 0,
            detail |-> "Failed to deserialize"]
    ELSE IF position = "raise_for_status" /\ exc \in Caught
      THEN [kind |-> ErrorClass(status), status |-> status,
            detail |-> "HTTP status reason for path"]
    ELSE [kind |-> exc, status |-> 0, detail |-> "none"]

\* line 133: no attempt is left
Exhausted(attempt, max) == attempt >= max

\* _maybe_retry without its `await resp.read()`
ReadBodySkipped(was_drained) == was_drained

\* line 136: await resp.read() leaves the body of the response drained
ReadBody(was_drained) == TRUE

\* RetryDelay with 504 left out of the transient statuses
RetryDelayNo504(status, attempt, retry_on, delay) ==
    IF status = 429 /\ retry_on THEN delay
    ELSE IF status \in {502, 503} THEN Pow2(attempt - 1)
    ELSE -1

\* lines 138-158: the delay before the retry, or -1 for `return False`
RetryDelay(status, attempt, retry_on, delay) ==
    IF status = 429 /\ retry_on THEN delay
    ELSE IF status \in {502, 503, 504} THEN Pow2(attempt - 1)
    ELSE -1

\* the loop of line 103 written as range(self._max_attempts + 1)
RangeFromZero == 1 - 1

\* line 103: range(1, self._max_attempts + 1), its first value and whether
\* a value follows `attempt`
FirstAttempt == 1
HasNext(attempt, max) == attempt + 1 < max + 1

(* ------------------------------ the session ---------------------------- *)

\* largest number of close() / __aexit__ calls on one client
MaxCloses == 3

\* line 61: self._owns_session = session is None
OwnsSession(given) == ~given

\* close() without the ownership test
ShouldCloseAnySession(owns, closed) == ~closed

\* close() without the test of self._session.closed
ShouldCloseAgain(owns, closed) == owns

\* line 185: the guard of close()
ShouldClose(owns, closed) == owns /\ ~closed

\* aiohttp ClientSession.close(), called at line 186 by `who`: it marks an
\* open session closed before it suspends and leaves a closed one alone
SessionClose(state, who) == IF state = "open" THEN who ELSE state

(* --------------------------- the profile decoder ------------------------ *)

\* The documents handed to _parse_profile, by what each step of the code
\* does with them.
\*   props     data["properties"][0]: "ok"; "missing" (KeyError: no such
\*             key), "empty" (IndexError: empty list), "wrongtype"
\*             (TypeError: data, properties or its first entry is a list,
\*             a string, a number or null where a dict or a list is needed)
\*   value     ["value"] and base64.b64decode: "ok"; "missing" (KeyError),
\*             "notstring" (TypeError: a number or null), "nonascii"
\*             (ValueError: a str with non-ASCII characters), "badpadding"
\*             (binascii.Error: truncated or otherwise wrongly padded)
\*   payload   json.loads of the decoded bytes: "object", "nonobject" (an
\*             array, string, number or null), "notjson" (JSONDecodeError),
\*             "notutf8" (UnicodeDecodeError)
\*   textures, skin, cape   the value of "textures", of "SKIN", of "CAPE":
\*             "absent", "dict" or "wrongtype" (null, a list, a string)
\*   model     SKIN.metadata.model: "nometadata", "nomodel", "slim",
\*             "empty" (""), "null", "wrongtype" (metadata is not a dict)
\*   profileId "uuid"; "missing", "invalid" (a str that is no UUID),
\*             "number" (uuid.UUID(5): AttributeError)
\*   timestamp "int"; "missing", "wrongtype"
\*   profileName "str"; "missing", "wrongtype"
AllDocs ==
    [props : {"ok", "missing", "empty", "wrongtype"},
     value : {"ok", "missing", "notstring", "nonascii", "badpadding"},
     payload : {"object", "nonobject", "notjson", "notutf8"},
     textures : {"absent", "dict", "wrongtype"},
     skin : {"absent", "dict", "wrongtype"},
     cape : {"absent", "dict", "wrongtype"},
     model : {"nometadata", "nomodel", "slim", "empty", "null", "wrongtype"},
     profileId : {"uuid", "missing", "invalid", "number"},
     timestamp : {"int", "missing", "wrongtype"},
     profileName : {"str", "missing", "wrongtype"}]

\* a part of the document exists only inside the part that holds it
WellNested(d) ==
    /\ d.props # "ok" => d.value = "ok"
    /\ d.value # "ok" => d.payload = "object"
    /\ d.payload # "object"
         => /\ d.textures = "absent"
            /\ d.profileId = "uuid"
            /\ d.timestamp = "int"
            /\ d.profileName = "str"
    /\ d.textures # "dict" => (d.skin = "absent" /\ d.cape = "absent")
    /\ d.skin # "dict" => d.model = "nometadata"

Docs == {d \in AllDocs : WellNested(d)}

NoDoc == [props |-> "none", value |-> "none", payload |-> "none",
          textures |-> "none", skin |-> "none", cape |-> "none",
          model |-> "none", profileId |-> "none", timestamp |-> "none",
          profileName |-> "none"]

NoProfile == [kind |-> "none", timestamp |-> "none", name |-> "none",
              skin_variant |-> "none"]

Raised(exc) == [kind |-> exc, timestamp |-> "none", name |-> "none",
                skin_variant |-> "none"]

\* lines 144-145: the exception of the first try block, or "none"
TexturesError(d) ==
    IF d.props = "missing" THEN "KeyError"
    ELSE IF d.props = "empty" THEN "IndexError"
    ELSE IF d.props = "wrongtype" THEN "TypeError"
    ELSE IF d.value = "missing" THEN "KeyError"
    ELSE IF d.value = "notstring" THEN "TypeError"
    ELSE IF d.value = "nonascii" THEN "ValueError"
    ELSE IF d.value = "badpadding" THEN "binascii.Error"
    ELSE IF d.payload = "notjson" THEN "JSONDecodeError"
    ELSE IF d.payload = "notutf8" THEN "UnicodeDecodeError"
    ELSE "none"

\* line 146: the exceptions the first try block catches
TexturesCaught == {"KeyError", "IndexError", "JSONDecodeError", "binascii.Error"}

\* lines 151-152: decoded.get("textures", {}) and textures.get("SKIN", {})
GetError(d) ==
    IF d.payload = "nonobject" \/ d.textures = "wrongtype"
      THEN "AttributeError" ELSE "none"

\* lines 155-163: the exception of the arguments of UserProfile(...), in
\* the order they are evaluated, or "none"
FieldError(d) ==
    IF d.profileId = "missing" THEN "KeyError"
    ELSE IF d.profileId = "invalid" THEN "ValueError"
    ELSE IF d.profileId = "number" THEN "AttributeError"
    ELSE IF d.timestamp = "missing" THEN "KeyError"
    ELSE IF d.profileName = "missing" THEN "KeyError"
    ELSE IF d.skin = "wrongtype" THEN "AttributeError"
    ELSE IF d.model = "wrongtype" THEN "AttributeError"
    ELSE IF d.cape = "wrongtype" THEN "AttributeError"
    ELSE "none"

\* line 164: the exceptions the second try block catches
FieldCaught == {"KeyError", "ValueError"}

\* line 161: skin.get("metadata", {}).get("model", "classic")
SkinVariant(model) ==
    CASE model \in {"nometadata", "nomodel"} -> "classic"
      [] model = "slim" -> "slim"
      [] model = "empty" -> ""
      [] model = "null" -> "None"
      [] OTHER -> "classic"

\* _parse_profile: the UserProfile it returns or the exception it raises
ParsedProfile(d) ==
    IF TexturesError(d) \in TexturesCaught THEN Raised("MalformedResponse")
    ELSE IF TexturesError(d) # "none" THEN Raised(TexturesError(d))
    ELSE IF GetError(d) # "none" THEN Raised(GetError(d))
    ELSE IF FieldError(d) \in FieldCaught THEN Raised("MalformedResponse")
    ELSE IF FieldError(d) # "none" THEN Raised(FieldError(d))
    ELSE [kind |-> "UserProfile", timestamp |-> d.timestamp,
          name |-> d.profileName, skin_variant |-> SkinVariant(d.model)]

(* --------------------------- the API methods --------------------------- *)

\* the lookup methods of API (lines 51-121) and get_blocked_servers
Lookups == {"get_uuid", "get_uuids", "get_username", "get_profile"}
Methods == Lookups \cup {"get_blocked_servers"}

\* _NOT_FOUND_ERRORS with BadRequest left out
NOT_FOUND_ONLY == {"NotFound"}

\* _NOT_FOUND_ERRORS (api.py line 24)
NOT_FOUND_ERRORS == {"NotFound", "BadRequest"}

\* the decoder each method hands to the client (_get_json, _post_json,
\* _get_text)
DecoderOf(method) == IF method = "get_blocked_servers" THEN "text" ELSE "json"

\* what the except clause of a lookup returns (lines 59, 88, 104, 120)
Absent(method) == IF method = "get_uuids" THEN "{}" ELSE "None"

\* every outcome _parse_profile has on a JSON object
ProfileResults ==
    {IF ParsedProfile(d).kind = "UserProfile" THEN "value"
     ELSE ParsedProfile(d).kind : d \in Docs}

\* What a method can make of the decoded value, by the type json() or
\* text() returned ("dict", "nondict", "str"); the fields of the value
\* are not modelled, so every result its code can reach is possible.
\*   get_uuid      lines 61-68: data["id"], uuid.UUID(raw) if raw else None
\*   get_uuids     lines 89-94: a dict of entry["name"], uuid.UUID(entry["id"])
\*   get_username  lines 105-110: data["name"]
\*   get_profile   line 121: _parse_profile(data)
\*   get_blocked_servers  line 128: text.splitlines()
PostProcess(method, type) ==
    CASE method = "get_uuid" ->
            IF type = "dict"
              THEN {"value", "None", "MalformedResponse", "ValueError",
                    "AttributeError"}
              ELSE {"MalformedResponse"}
      [] method = "get_uuids" ->
            IF type = "dict" THEN {"{}", "MalformedResponse"}
            ELSE {"value", "{}", "MalformedResponse", "AttributeError"}
      [] method = "get_username" ->
            IF type = "dict" THEN {"value", "MalformedResponse"}
            ELSE {"MalformedResponse"}
      [] method = "get_profile" ->
            IF type = "dict" THEN ProfileResults ELSE {"TypeError"}
      [] OTHER -> {"value"}

\* what the method returns or raises when _request ends with outcome o
Returned(method, o) ==
    IF method = "none" THEN {"none"}
    ELSE IF method \in Lookups /\ o.kind \in NOT_FOUND_ERRORS
      THEN {Absent(method)}
    ELSE IF o.kind = "value" THEN PostProcess(method, o.detail)
    ELSE {o.kind}

(* ------------------------------- state --------------------------------- *)

VARIABLES
    max_attempts,   \* self._max_attempts
    retry,          \* self._retry
    retry_delay,    \* self._retry_delay
    pc,             \* per call: the await the call is suspended at
    decoder,        \* per call: the deserialize argument
    attempt,        \* per call: the loop variable of _request
    resp,           \* per call: the response of the current attempt
    requests,       \* per call: number of session.request() calls so far
    history,        \* per call: the statuses received, in order
    delays,         \* per call: the arguments of asyncio.sleep, in order
    outcome,        \* per call: the value returned or the exception raised
    drained,        \* per call: resp.read() has completed on the response
    cancelled,      \* per call: the task of the call has been cancelled
    api,            \* per call: the method of API that made the call
    result,         \* per call: what that method returned or raised
    supplied,       \* the constructor was given a session
    owns_session,   \* self._owns_session
    created,        \* number of ClientSession objects the constructor made
    session_closed, \* self._session.closed, and who closed the session
    releases,       \* number of self._session.close() calls of the client
    closes,         \* number of close() / __aexit__ calls so far
    closing,        \* number of close() calls suspended in session.close()
    doc,            \* the document handed to _parse_profile
    profile         \* what _parse_profile returned or raised

config == <<max_attempts, retry, retry_delay>>
session == <<supplied, owns_session, created, session_closed, releases,
             closes, closing>>
decoding == <<doc, profile>>
vars == <<max_attempts, retry, retry_delay, pc, decoder, attempt, resp,
          requests, history, delays, outcome, drained, cancelled, api, result,
          supplied, owns_session, created, session_closed, releases, closes,
          closing, doc, profile>>

\* _HTTPClient.__init__ (max_attempts < 1 raises ValueError: no client)
Init ==
    /\ max_attempts \in 1..MaxAttemptsBound
    /\ retry \in BOOLEAN
    /\ retry_delay \in SleepTimes
    /\ pc = [c \in AllCalls |-> "idle"]
    /\ decoder = [c \in AllCalls |-> "json"]
    /\ attempt = [c \in AllCalls |-> 0]
    /\ resp = [c \in AllCalls |-> NoResponse]
    /\ requests = [c \in AllCalls |-> 0]
    /\ history = [c \in AllCalls |-> <<>>]
    /\ delays = [c \in AllCalls |-> <<>>]
    /\ outcome = [c \in AllCalls |-> NoOutcome]
    /\ drained = [c \in AllCalls |-> FALSE]
    /\ cancelled = [c \in AllCalls |-> FALSE]
    /\ api = [c \in AllCalls |-> "none"]
    /\ result = [c \in AllCalls |-> "none"]
    /\ supplied \in BOOLEAN
    /\ owns_session = OwnsSession(supplied)
    /\ created = IF supplied THEN 0 ELSE 1
    /\ session_closed = "open"
    /\ releases = 0
    /\ closes = 0
    /\ closing = 0
    /\ doc = NoDoc
    /\ profile = NoProfile

(* ------------------------------ actions -------------------------------- *)

\* the call ends with outcome o: the method of API that made it returns or
\* raises in the same step (the except clauses of api.py)
Finish(c, o) ==
    /\ outcome' = [outcome EXCEPT ![c] = o]
    /\ pc' = [pc EXCEPT ![c] = "done"]
    /\ \E r \in Returned(api[c], o) : result' = [result EXCEPT ![c] = r]

\* _request up to its first await: the loop starts and the first request is
\* issued (lines 103-104)
Request(c, d) ==
    /\ pc[c] \in {"idle", "done"}
    /\ session_closed = "open"
    /\ pc' = [pc EXCEPT ![c] = "request"]
    /\ decoder' = [decoder EXCEPT ![c] = d]
    /\ attempt' = [attempt EXCEPT ![c] = FirstAttempt]
    /\ resp' = [resp EXCEPT ![c] = NoResponse]
    /\ requests' = [requests EXCEPT ![c] = 1]
    /\ history' = [history EXCEPT ![c] = <<>>]
    /\ delays' = [delays EXCEPT ![c] = <<>>]
    /\ outcome' = [outcome EXCEPT ![c] = NoOutcome]
    /\ drained' = [drained EXCEPT ![c] = FALSE]
    /\ cancelled' = [cancelled EXCEPT ![c] = FALSE]
    /\ UNCHANGED <<config, session, decoding>>

\* the call is made on the client itself, by no method of API
Direct(c) ==
    /\ api' = [api EXCEPT ![c] = "none"]
    /\ result' = [result EXCEPT ![c] = "none"]

\* _get_json and _post_json: r.json() is the decoder
GetJson(c) == Request(c, "json") /\ Direct(c)
PostJson(c) == Request(c, "json") /\ Direct(c)

\* _get_text: r.text() is the decoder
GetText(c) == Request(c, "text") /\ Direct(c)

\* the response of the current attempt arrives (line 104); the code runs to
\* the next await: deserialize (114), resp.read() (136) or resp.json() (166)
Response(c, status, body) ==
    /\ pc[c] = "request"
    /\ resp' = [resp EXCEPT ![c] = [status |-> status, body |-> body]]
    /\ history' = [history EXCEPT ![c] = Append(@, status)]
    /\ pc' = [pc EXCEPT ![c] =
                IF Ok(status) THEN "deserialize"
                ELSE IF Exhausted(attempt[c], max_attempts)
                  THEN "raise_for_status"
                ELSE "read"]
    /\ drained' = [drained EXCEPT ![c] = FALSE]
    /\ UNCHANGED <<config, decoder, attempt, requests, delays, outcome,
                   cancelled, api, result, session, decoding>>

\* await deserialize(resp) completes (lines 113-118)
Deserialize(c) ==
    /\ pc[c] = "deserialize"
    /\ Finish(c, Deserialized(decoder[c], resp[c].body))
    /\ UNCHANGED <<config, decoder, attempt, resp, requests, history, delays,
                   drained, cancelled, api, session, decoding>>

\* await resp.read() completes (line 136); _maybe_retry goes to sleep
\* (145, 157) or returns False and _raise_for_status starts (160, 121)
Read(c) ==
    LET d == RetryDelay(resp[c].status, attempt[c], retry, retry_delay) IN
    /\ pc[c] = "read"
    /\ IF d >= 0
         THEN /\ delays' = [delays EXCEPT ![c] = Append(@, d)]
              /\ pc' = [pc EXCEPT ![c] = "sleep"]
         ELSE /\ delays' = delays
              /\ pc' = [pc EXCEPT ![c] = "raise_for_status"]
    /\ drained' = [drained EXCEPT ![c] = ReadBody(@)]
    /\ UNCHANGED <<config, decoder, attempt, resp, requests, history, outcome,
                   cancelled, api, result, session, decoding>>

\* a loop whose attempt counter were a field of the client, advanced for
\* every call at once
SleepShared(c) ==
    /\ pc[c] = "sleep"
    /\ IF HasNext(attempt[c], max_attempts)
         THEN /\ attempt' = [d \in AllCalls |-> attempt[c] + 1]
              /\ requests' = [requests EXCEPT ![c] = @ + 1]
              /\ pc' = [pc EXCEPT ![c] = "request"]
              /\ UNCHANGED <<outcome, result>>
         ELSE /\ Finish(c, [kind |-> "None", status |-> 0, detail |-> "none"])
              /\ UNCHANGED <<attempt, requests>>
    /\ UNCHANGED <<config, decoder, resp, history, delays, drained, cancelled,
                   api, session, decoding>>

\* await asyncio.sleep() completes; _maybe_retry returns True, the loop
\* continues (120) and issues the next request, or runs out of its range
\* and _request returns None
Sleep(c) ==
    /\ pc[c] = "sleep"
    /\ IF HasNext(attempt[c], max_attempts)
         THEN /\ attempt' = [attempt EXCEPT ![c] = @ + 1]
              /\ requests' = [requests EXCEPT ![c] = @ + 1]
              /\ pc' = [pc EXCEPT ![c] = "request"]
              /\ UNCHANGED <<outcome, result>>
         ELSE /\ Finish(c, [kind |-> "None", status |-> 0, detail |-> "none"])
              /\ UNCHANGED <<attempt, requests>>
    /\ UNCHANGED <<config, decoder, resp, history, delays, drained, cancelled,
                   api, session, decoding>>

\* await resp.json() completes in _raise_for_status, which raises (165-181)
RaiseForStatus(c) ==
    /\ pc[c] = "raise_for_status"
    /\ Finish(c, RaisedForStatus(resp[c].status, resp[c].body))
    /\ UNCHANGED <<config, decoder, attempt, resp, requests, history, delays,
                   drained, cancelled, api, session, decoding>>

\* the task of a suspended call is cancelled: asyncio throws CancelledError
\* into the coroutine at its current await
Suspended == {"request", "deserialize", "read", "sleep", "raise_for_status"}

Cancel(c) ==
    /\ pc[c] \in Suspended
    /\ Finish(c, Thrown(pc[c], "CancelledError", resp[c].status))
    /\ cancelled' = [cancelled EXCEPT ![c] = TRUE]
    /\ UNCHANGED <<config, decoder, attempt, resp, requests, history, delays,
                   drained, api, session, decoding>>

Next ==
    \/ \E c \in Calls : GetJson(c)
    \/ \E c \in Calls : PostJson(c)
    \/ \E c \in Calls : GetText(c)
    \/ \E c \in Calls, s \in Statuses, b \in Bodies : Response(c, s, b)
    \/ \E c \in Calls : Deserialize(c)
    \/ \E c \in Calls : Read(c)
    \/ \E c \in Calls : Sleep(c)
    \/ \E c \in Calls : RaiseForStatus(c)

Spec == Init /\ [][Next]_vars

\* the calls of Spec, each of which may be cancelled while it is suspended
NextCancel ==
    \/ Next
    \/ \E c \in Calls : Cancel(c)

SpecCancel == Init /\ [][NextCancel]_vars

(* ------------------------ shutdown of the session ----------------------- *)

calls == <<pc, decoder, attempt, resp, requests, history, delays, outcome,
           drained, cancelled, api, result>>

\* _HTTPClient.close() up to its await (lines 185-186): an owned, open
\* session is closed and the caller is suspended in session.close();
\* otherwise close() returns at once
CloseSession ==
    /\ closes < MaxCloses
    /\ closes' = closes + 1
    /\ IF ShouldClose(owns_session, session_closed # "open")
         THEN /\ session_closed' = SessionClose(session_closed, "engine")
              /\ releases' = releases + 1
              /\ closing' = closing + 1
         ELSE UNCHANGED <<session_closed, releases, closing>>
    /\ UNCHANGED <<config, calls, supplied, owns_session, created, decoding>>

\* API.close() (api.py lines 130-132)
Close == CloseSession

\* API.__aexit__ (api.py lines 137-138)
AExit == CloseSession

\* await self._session.close() completes and close() returns
Closed ==
    /\ closing > 0
    /\ closing' = closing - 1
    /\ UNCHANGED <<config, calls, supplied, owns_session, created,
                   session_closed, releases, closes, decoding>>

\* the caller closes the session it supplied
CallerCloses ==
    /\ supplied
    /\ session_closed = "open"
    /\ session_closed' = "caller"
    /\ UNCHANGED <<config, calls, supplied, owns_session, created, releases,
                   closes, closing, decoding>>

\* _request on a closed session: session.request() raises RuntimeError
\* ("Session is closed") at line 104 and no request is issued
RequestOnClosed(c) ==
    /\ pc[c] \in {"idle", "done"}
    /\ session_closed # "open"
    /\ Direct(c)
    /\ Finish(c, [kind |-> "RuntimeError", status |-> 0, detail |-> "none"])
    /\ attempt' = [attempt EXCEPT ![c] = FirstAttempt]
    /\ resp' = [resp EXCEPT ![c] = NoResponse]
    /\ requests' = [requests EXCEPT ![c] = 0]
    /\ history' = [history EXCEPT ![c] = <<>>]
    /\ delays' = [delays EXCEPT ![c] = <<>>]
    /\ drained' = [drained EXCEPT ![c] = FALSE]
    /\ cancelled' = [cancelled EXCEPT ![c] = FALSE]
    /\ UNCHANGED <<config, decoder, session, decoding>>

\* the statuses and bodies the server answers with while the shutdown is
\* explored
SessionStatuses == {200, 404, 503}
SessionBodies == {"object", "nonobject"}

NextSession ==
    \/ Close
    \/ AExit
    \/ Closed
    \/ CallerCloses
    \/ \E c \in Calls : GetJson(c)
    \/ \E c \in Calls : RequestOnClosed(c)
    \/ \E c \in Calls, s \in SessionStatuses, b \in SessionBodies :
          Response(c, s, b)
    \/ \E c \in Calls : Deserialize(c)
    \/ \E c \in Calls : Read(c)
    \/ \E c \in Calls : Sleep(c)
    \/ \E c \in Calls : RaiseForStatus(c)

SpecSession == Init /\ [][NextSession]_vars

(* ------------------- calls interleaved on one client ------------------ *)

\* the responses the interleaved calls receive
ConcStatuses == {200, 404, 429, 503}
ConcBodies == {"object", "nonobject"}

\* asyncio.gather(...) of calls on one client: every call of AllCalls runs
\* its own _request coroutine, the event loop resumes whichever is ready
NextConc ==
    \/ \E c \in AllCalls : GetJson(c)
    \/ \E c \in AllCalls : GetText(c)
    \/ \E c \in AllCalls, s \in ConcStatuses, b \in ConcBodies :
          Response(c, s, b)
    \/ \E c \in AllCalls : Deserialize(c)
    \/ \E c \in AllCalls : Read(c)
    \/ \E c \in AllCalls : Sleep(c)
    \/ \E c \in AllCalls : RaiseForStatus(c)

SpecConc == Init /\ [][NextConc]_vars

\* _request run by itself on the responses h (statuses) the last of which
\* has the body `body`: the attempt k receives h[k]; gives the delays slept
\* and how the call ends ("running" if h is no complete run)
RECURSIVE Alone(_, _, _, _, _)
Alone(h, body, dec, k, ds) ==
    IF k > Len(h) THEN [outcome |-> NoOutcome, delays |-> ds]
    ELSE IF Ok(h[k])
      THEN [outcome |-> Deserialized(dec, body), delays |-> ds]
    ELSE IF Exhausted(k, max_attempts)
      THEN [outcome |-> RaisedForStatus(h[k], body), delays |-> ds]
    ELSE LET d == RetryDelay(h[k], k, retry, retry_delay) IN
         IF d < 0
           THEN [outcome |-> RaisedForStatus(h[k], body), delays |-> ds]
         ELSE IF HasNext(k, max_attempts)
           THEN Alone(h, body, dec, k + 1, Append(ds, d))
         ELSE [outcome |-> [kind |-> "None", status |-> 0, detail |-> "none"],
               delays |-> Append(ds, d)]

(* --------------------------- the methods of API ------------------------- *)

\* the call is made by a method of API, which is suspended in it
Called(c, method) ==
    /\ api' = [api EXCEPT ![c] = method]
    /\ result' = [result EXCEPT ![c] = "pending"]

\* a method of API awaits self._http._get_json / _post_json / _get_text
GetUuid(c) ==
    Request(c, DecoderOf("get_uuid")) /\ Called(c, "get_uuid")
GetUuids(c) ==
    Request(c, DecoderOf("get_uuids")) /\ Called(c, "get_uuids")
GetUsername(c) ==
    Request(c, DecoderOf("get_username")) /\ Called(c, "get_username")
GetProfile(c) ==
    Request(c, DecoderOf("get_profile")) /\ Called(c, "get_profile")
GetBlockedServers(c) ==
    /\ Request(c, DecoderOf("get_blocked_servers"))
    /\ Called(c, "get_blocked_servers")

\* a lookup rejects its argument before any request: _assert_valid_username,
\* the batch limit and _parse_uuid raise ValueError (lines 53, 76-81, 98, 114)
InvalidArgument(c, method) ==
    /\ pc[c] \in {"idle", "done"}
    /\ pc' = [pc EXCEPT ![c] = "idle"]
    /\ api' = [api EXCEPT ![c] = method]
    /\ result' = [result EXCEPT ![c] = "ValueError"]
    /\ attempt' = [attempt EXCEPT ![c] = 0]
    /\ resp' = [resp EXCEPT ![c] = NoResponse]
    /\ requests' = [requests EXCEPT ![c] = 0]
    /\ history' = [history EXCEPT ![c] = <<>>]
    /\ delays' = [delays EXCEPT ![c] = <<>>]
    /\ outcome' = [outcome EXCEPT ![c] = NoOutcome]
    /\ drained' = [drained EXCEPT ![c] = FALSE]
    /\ cancelled' = [cancelled EXCEPT ![c] = FALSE]
    /\ UNCHANGED <<config, decoder, session, decoding>>

NextApi ==
    \/ \E c \in Calls : GetUuid(c)
    \/ \E c \in Calls : GetUuids(c)
    \/ \E c \in Calls : GetUsername(c)
    \/ \E c \in Calls : GetProfile(c)
    \/ \E c \in Calls : GetBlockedServers(c)
    \/ \E c \in Calls, m \in Lookups : InvalidArgument(c, m)
    \/ \E c \in Calls, s \in Statuses, b \in Bodies : Response(c, s, b)
    \/ \E c \in Calls : Deserialize(c)
    \/ \E c \in Calls : Read(c)
    \/ \E c \in Calls : Sleep(c)
    \/ \E c \in Calls : RaiseForStatus(c)

SpecApi == Init /\ [][NextApi]_vars

(* ----------------------- the profile decoder alone --------------------- *)

\* a client with the default policy and a document for _parse_profile
InitProfile ==
    /\ max_attempts = 3
    /\ retry = FALSE
    /\ retry_delay = 60
    /\ pc = [c \in AllCalls |-> "idle"]
    /\ decoder = [c \in AllCalls |-> "json"]
    /\ attempt = [c \in AllCalls |-> 0]
    /\ resp = [c \in AllCalls |-> NoResponse]
    /\ requests = [c \in AllCalls |-> 0]
    /\ history = [c \in AllCalls |-> <<>>]
    /\ delays = [c \in AllCalls |-> <<>>]
    /\ outcome = [c \in AllCalls |-> NoOutcome]
    /\ drained = [c \in AllCalls |-> FALSE]
    /\ cancelled = [c \in AllCalls |-> FALSE]
    /\ api = [c \in AllCalls |-> "none"]
    /\ result = [c \in AllCalls |-> "none"]
    /\ supplied = FALSE
    /\ owns_session = OwnsSession(supplied)
    /\ created = 1
    /\ session_closed = "open"
    /\ releases = 0
    /\ closes = 0
    /\ closing = 0
    /\ doc \in Docs
    /\ profile = NoProfile

\* _parse_profile(doc)
ParseProfile ==
    /\ profile = NoProfile
    /\ profile' = ParsedProfile(doc)
    /\ UNCHANGED <<config, pc, decoder, attempt, resp, requests, history,
                   delays, outcome, drained, cancelled, api, result, session,
                   doc>>

SpecProfile == InitProfile /\ [][ParseProfile]_vars

(* ------------------------------ typing --------------------------------- *)

TypeOK ==
    /\ max_attempts \in 1..MaxAttemptsBound
    /\ retry \in BOOLEAN
    /\ retry_delay \in SleepTimes
    /\ \A c \in Calls :
        /\ pc[c] \in {"idle", "request", "deserialize", "read", "sleep",
                      "raise_for_status", "done"}
        /\ decoder[c] \in Decoders
        /\ attempt[c] \in 0..max_attempts
        /\ requests[c] \in Nat
        /\ Len(history[c]) <= requests[c]

(* --------------------------- shared notions ---------------------------- *)

Done(c) == pc[c] = "done"

\* the success range of the specification
Success(status) == status >= 200 /\ status <= 299

\* statuses the retry policy treats as transient
Transient(status) == status \in {502, 503, 504} \/ (status = 429 /\ retry)

\* the decoder of the call can decode the body
Decodable(d, body) ==
    IF d = "json" THEN body \in {"errorMessage", "error", "object", "nonobject"}
    ELSE body # "encoding"

\* the call stopped at its last response: one request per response, one
\* delay between two requests and none after the last
StoppedAtLast(c) ==
    /\ requests[c] = Len(history[c])
    /\ Len(delays[c]) = requests[c] - 1

(* ------------------------------- C1 ------------------------------------ *)

\* C1: the number of requests one call of _request issues never exceeds
\* max_attempts, the first request included.
AttemptsBounded == \A c \in Calls : requests[c] <= max_attempts

\* a call that used its whole budget of three attempts and failed
AttemptsBoundedWitness ==
    \E c \in Calls :
        /\ Done(c)
        /\ max_attempts = 3
        /\ requests[c] = 3
        /\ outcome[c].kind = "ServerError"

(* ------------------------------- C2 ------------------------------------ *)

\* C2: every finished call has returned a decoded value or raised exactly
\* one error of the taxonomy; it never ends with another kind of failure
\* and never returns without a value.
OneTerminalOutcome ==
    \A c \in Calls :
        Done(c) => outcome[c].kind \in Taxonomy \cup {"value"}

(* ------------------------------- C3 ------------------------------------ *)

\* C3: a success-status response whose body the decoder of the call (JSON
\* or text) cannot decode ends the call with MalformedResponse, status 0,
\* with no further request and no delay after that response.
UndecodableIsMalformed ==
    \A c \in Calls :
        (/\ Done(c)
         /\ Success(resp[c].status)
         /\ ~Decodable(decoder[c], resp[c].body))
        => /\ outcome[c].kind = "MalformedResponse"
           /\ outcome[c].status = 0
           /\ StoppedAtLast(c)

(* ------------------------------- C4 ------------------------------------ *)

\* C4: with retry_on_ratelimit false, a 429 on the first attempt ends the
\* call with TooManyRequests carrying 429 after one request and no delay.
RateLimitNotRetried ==
    \A c \in Calls :
        (/\ Done(c)
         /\ ~retry
         /\ history[c] # <<>>
         /\ history[c][1] = 429)
        => /\ outcome[c].kind = "TooManyRequests"
           /\ outcome[c].status = 429
           /\ requests[c] = 1
           /\ delays[c] = <<>>

(* ------------------------------- C5 ------------------------------------ *)

\* C5: with retry_on_ratelimit true and 429 answered to every request, the
\* call issues max_attempts requests, sleeps max_attempts - 1 times for
\* ratelimit_sleep_time each, and fails with TooManyRequests.
RateLimitRetriedToTheEnd ==
    \A c \in Calls :
        (/\ Done(c)
         /\ retry
         /\ \A i \in 1..Len(history[c]) : history[c][i] = 429)
        => /\ requests[c] = max_attempts
           /\ Len(delays[c]) = max_attempts - 1
           /\ \A i \in 1..Len(delays[c]) : delays[c][i] = retry_delay
           /\ outcome[c].kind = "TooManyRequests"

(* ------------------------------- C6 ------------------------------------ *)

\* C6: a 502, 503 or 504 at attempt k with attempts remaining is retried
\* after a delay of 2^(k-1), whatever retry_on_ratelimit is and whatever
\* the earlier attempts ended in; 503 to every request with max_attempts 3
\* gives three attempts, the delays 1 and 2, and ServerError carrying 503.
BackoffSchedule ==
    \A c \in Calls :
        /\ \A k \in 1..Len(history[c]) :
            (history[c][k] \in {502, 503, 504} /\ k < max_attempts)
            => \/ (k = Len(history[c]) /\ pc[c] = "read")
               \/ (/\ Len(delays[c]) >= k
                   /\ delays[c][k] = 2 ^ (k - 1)
                   /\ (k = Len(history[c]) => pc[c] \in {"sleep", "request"}))
        /\ (/\ Done(c)
            /\ max_attempts = 3
            /\ \A i \in 1..Len(history[c]) : history[c][i] = 503)
           => /\ requests[c] = 3
              /\ delays[c] = <<1, 2>>
              /\ outcome[c].kind = "ServerError"
              /\ outcome[c].status = 503

(* ------------------------------- C7 ------------------------------------ *)

\* C7: a non-success response that is not transient under the policy is
\* surfaced at its attempt: the call fails with the error classified from
\* it and issues no request and sleeps no delay after it.
NotTransientSurfaced ==
    \A c \in Calls :
        (/\ history[c] # <<>>
         /\ resp[c].status = history[c][Len(history[c])]
         /\ ~Success(resp[c].status)
         /\ ~Transient(resp[c].status))
        => /\ pc[c] # "sleep"
           /\ StoppedAtLast(c)
           /\ Done(c) => /\ outcome[c].kind \in Taxonomy \ {"MalformedResponse"}
                         /\ outcome[c].status = resp[c].status

(* ------------------------------- C8 ------------------------------------ *)

\* C8: a call that fails at a transient response (502, 503, 504, or 429
\* with retry_on_ratelimit) has issued max_attempts requests; and a call
\* whose transient failures are followed by a decodable success response
\* returns the decoded value.
TransientNeverSurfacedEarly ==
    \A c \in Calls :
        /\ (/\ Done(c)
            /\ outcome[c].kind # "value"
            /\ Transient(resp[c].status))
           => requests[c] = max_attempts
        /\ (/\ Done(c)
            /\ Len(history[c]) >= 2
            /\ \A i \in 1..(Len(history[c]) - 1) : Transient(history[c][i])
            /\ Success(resp[c].status)
            /\ Decodable(decoder[c], resp[c].body))
           => outcome[c].kind = "value"

\* a call that was retried after a 429 and a 503 and failed with the 504 of
\* its third and last attempt
TransientNeverSurfacedEarlyWitness ==
    \E c \in Calls :
        /\ Done(c)
        /\ max_attempts = 3
        /\ retry
        /\ requests[c] = 3
        /\ history[c] = <<429, 503, 504>>
        /\ outcome[c].kind = "ServerError"

(* ------------------------------- C9 ------------------------------------ *)

\* C9: the decoder is applied to a response if and only if its status is
\* in 200..299, and a value is returned only for such a response.
DecodedIffSuccess ==
    \A c \in Calls :
        /\ pc[c] = "deserialize" => Success(resp[c].status)
        /\ pc[c] \in {"read", "sleep", "raise_for_status"}
              => ~Success(resp[c].status)
        /\ (Done(c) /\ outcome[c].kind = "value") => Success(resp[c].status)

(* ------------------------------- C10 ----------------------------------- *)

\* C10: _raise_for_status raises the error kind of the status, carrying
\* that status, whatever the body is: 400 BadRequest, 401 Unauthorized,
\* 403 Forbidden, 404 NotFound, 429 TooManyRequests, other statuses from
\* 500 ServerError, anything else MojangError.
ClaimedKind(status) ==
    CASE status = 400 -> "BadRequest"
      [] status = 401 -> "Unauthorized"
      [] status = 403 -> "Forbidden"
      [] status = 404 -> "NotFound"
      [] status = 429 -> "TooManyRequests"
      [] OTHER -> IF status >= 500 THEN "ServerError" ELSE "MojangError"

ClassifiedByStatus ==
    [][\A c \in Calls :
          (pc[c] = "raise_for_status" /\ pc'[c] = "done")
          => /\ outcome'[c].kind = ClaimedKind(resp[c].status)
             /\ outcome'[c].status = resp[c].status]_vars

(* ------------------------------- C11 ----------------------------------- *)

\* the detail the specification derives from the body of an error response
ClaimedDetail(body) ==
    CASE body = "errorMessage" -> {"errorMessage"}
      [] body = "error" -> {"error"}
      [] OTHER -> {"HTTP status", "HTTP status reason for path"}

\* C11: _raise_for_status never fails because of the body: for every body
\* (unparsable, an object with errorMessage, with only error, with neither,
\* or JSON that is not an object) it raises the error kind of the status
\* with the detail taken from errorMessage, else error, else the fallback.
BodyNeverBreaksClassification ==
    [][\A c \in Calls :
          (pc[c] = "raise_for_status" /\ pc'[c] = "done")
          => /\ outcome'[c].kind \in Taxonomy \ {"MalformedResponse"}
             /\ outcome'[c].detail \in ClaimedDetail(resp[c].body)]_vars

(* ------------------------------- C12 ----------------------------------- *)

\* requests of the call whose response has not arrived
InFlight(c) == requests[c] - Len(history[c])

\* C12: within one call at most one request is in flight, and the request
\* of attempt n+1 is issued only when the response of attempt n has
\* arrived, its body has been drained and the delay computed for attempt n
\* has elapsed.
SequentialAttempts ==
    /\ [](\A c \in Calls : InFlight(c) \in {0, 1})
    /\ [][\A c \in Calls :
            (requests[c] >= 1 /\ requests'[c] = requests[c] + 1)
            => /\ InFlight(c) = 0
               /\ drained[c]
               /\ pc[c] = "sleep"
               /\ Len(delays[c]) = requests[c]]_vars

\* the third request of a call is in flight, after two drained bodies and
\* two delays
SequentialAttemptsWitness ==
    \E c \in Calls :
        /\ pc[c] = "request"
        /\ requests[c] = 3
        /\ drained[c]
        /\ Len(delays[c]) = 2

(* ------------------------------- C13 ----------------------------------- *)

\* C13: a call cancelled while suspended (on the request, the drain, the
\* decoding, the classification or a delay) ends with the cancellation: no
\* request and no delay follows it and it is not turned into a retry, a
\* value or an error of the taxonomy.
CancellationAborts ==
    [][\A c \in Calls :
          /\ cancelled'[c]
             => /\ pc'[c] = "done"
                /\ outcome'[c].kind = "CancelledError"
          /\ (~cancelled[c] /\ cancelled'[c])
             => /\ pc[c] \in Suspended
                /\ requests'[c] = requests[c]
                /\ delays'[c] = delays[c]
                /\ history'[c] = history[c]]_vars

\* a call cancelled during its first backoff delay, with attempts remaining
CancellationAbortsWitness ==
    \E c \in Calls :
        /\ cancelled[c]
        /\ Done(c)
        /\ requests[c] = 1
        /\ Len(delays[c]) = 1
        /\ max_attempts >= 2

(* ------------------------------- C18 ----------------------------------- *)

\* the structural problems of a document the specification names
StructuralProblem(d) ==
    \/ d.props # "ok"
    \/ d.value # "ok"
    \/ d.payload # "object"
    \/ d.profileId # "uuid"
    \/ d.timestamp # "int"
    \/ d.profileName # "str"

\* C18: _parse_profile raises MalformedResponse, and nothing else, on every
\* structural problem of its input (no properties[0].value or a document
\* of the wrong shape, a value that is not base64, bytes that are not JSON
\* or not a JSON object, a missing or mistyped profileId, timestamp or
\* profileName) and returns a UserProfile only when there is none.
ProfileDecoderStrict ==
    profile # NoProfile
    => /\ StructuralProblem(doc) => profile.kind = "MalformedResponse"
       /\ profile.kind = "UserProfile" => ~StructuralProblem(doc)

(* ------------------------------- C19 ----------------------------------- *)

\* C19: every UserProfile _parse_profile returns has a skin_variant that is
\* neither empty nor missing; it is "classic" when the SKIN texture or its
\* metadata.model is absent.
SkinVariantNeverEmpty ==
    profile.kind = "UserProfile"
    => /\ profile.skin_variant \notin {"", "None"}
       /\ doc.model \in {"nometadata", "nomodel"}
            => profile.skin_variant = "classic"

(* ------------------------------- C14 ----------------------------------- *)

\* C14: a session supplied by the caller is never closed by the client:
\* after any calls, close() calls and context-manager exits it is open
\* unless the caller closed it.
SuppliedSessionNeverClosed ==
    supplied => /\ session_closed \in {"open", "caller"}
                /\ releases = 0
                /\ created = 0

\* close() has run three times on a client with a supplied session that
\* has served a call, and the session is open
SuppliedSessionNeverClosedWitness ==
    /\ supplied
    /\ closes = 3
    /\ session_closed = "open"
    /\ \E c \in Calls : Done(c) /\ outcome[c].kind = "value"

(* ------------------------------- C15 ----------------------------------- *)

\* C15: a client that made its session itself has exactly one session; any
\* number of close() calls, also interleaved ones, closes it exactly once,
\* and a close() after the first changes nothing.
OwnedSessionClosedOnce ==
    /\ [](~supplied
            => /\ created = 1
               /\ releases <= 1
               /\ closes >= 1 => (releases = 1 /\ session_closed = "engine"))
    /\ [][(~supplied /\ closes >= 1 /\ closes' = closes + 1)
            => UNCHANGED <<session_closed, releases, closing, created>>]_vars

\* the third close() was called while the first was still suspended in
\* session.close(), and the session was released once
OwnedSessionClosedOnceWitness ==
    /\ ~supplied
    /\ closes = 3
    /\ closing = 1
    /\ releases = 1
    /\ session_closed = "engine"

(* ------------------------------- C16 ----------------------------------- *)

Own(c) == <<pc[c], decoder[c], attempt[c], resp[c], requests[c], history[c],
            delays[c], outcome[c], drained[c], cancelled[c], api[c],
            result[c]>>

\* C17: calls interleaved on one client are independent: every step is the
\* step of one call and leaves the other calls' counters, delays and
\* outcomes and the retry policy as they were; each call issues at most
\* max_attempts requests, and ends with the outcome and the delays it has
\* alone on its own sequence of responses.
ConcurrentCallsIndependent ==
    /\ [](\A c \in AllCalls :
            /\ requests[c] <= max_attempts
            /\ Done(c) =>
                 LET alone == Alone(history[c], resp[c].body, decoder[c],
                                    1, <<>>) IN
                 /\ outcome[c] = alone.outcome
                 /\ delays[c] = alone.delays)
    /\ [][/\ config' = config
          /\ \E c \in AllCalls :
               \A d \in AllCalls \ {c} : Own(d)' = Own(d)]_vars

\* two calls that were both in flight ended differently, each after its own
\* number of requests
ConcurrentCallsIndependentWitness ==
    /\ Done("c1") /\ Done("c2")
    /\ history["c1"] = <<503, 429, 404>>
    /\ history["c2"] = <<429, 200>>
    /\ outcome["c1"].kind = "NotFound"
    /\ outcome["c2"].kind = "value"
    /\ delays["c1"] = <<1, retry_delay>>
    /\ delays["c2"] = <<retry_delay>>

(* ------------------------------- C20 ----------------------------------- *)

\* the delays of a finished call are one fewer than its requests
NoDelayAfterFinalAttempt ==
    \A c \in Calls : Done(c) => Len(delays[c]) = requests[c] - 1

\* C20: a call that fails after several responses fails with the error kind
\* and the status of the last response it received, never of an earlier
\* one, and when it ends it has slept once fewer than it has requested.
LastResponseClassifies ==
    \A c \in Calls :
        Done(c) =>
            /\ Len(delays[c]) = requests[c] - 1
            /\ (Len(history[c]) >= 2 /\ ~Ok(resp[c].status))
               => /\ outcome[c].kind = ClaimedKind(resp[c].status)
                  /\ outcome[c].status = resp[c].status

====
